---- MODULE Spec2Model ----
(***************************************************************************)
(* Timesheet-to-payroll engine of the HRM application:                     *)
(*   - calculateOvertime and the POST /api/timesheets handler              *)
(*     (src/src/app/api/timesheets/route.ts),                              *)
(*   - hasPermission (src/src/lib/auth.ts),                                *)
(*   - the cost trigger update_project_actual_cost (src/init.sql).         *)
(*                                                                         *)
(* Units.  A Date is its millisecond count since local midnight of day 0.  *)
(* Hour quantities (normalHours, ot1_5Hours, ...) are kept in milliseconds *)
(* (hours * MsPerHour), so that no fraction is rounded.  Money is kept in  *)
(* units of 1/(2 * MsPerHour) dollar: h hours at rate r are 2*h*r at x1,   *)
(* 3*h*r at x1.5 and 4*h*r at x2.                                          *)
(***************************************************************************)
EXTENDS Integers, Sequences, FiniteSets, TLC

\* route.ts:8  (1000 * 60 * 60)
MsPerHour == 3600000

MsPerMinute == MsPerHour \div 60
MsPerDay == 24 * MsPerHour

Max(a, b) == IF a >= b THEN a ELSE b
Min(a, b) == IF a <= b THEN a ELSE b

\* new Date(clockIn); d.setHours(h, m, s, ms): the instant h:m:s.ms of the
\* calendar day of t.
SetHours(t, h, m, s, ms) ==
    (t \div MsPerDay) * MsPerDay + h * MsPerHour + m * MsPerMinute + s * 1000 + ms

\* The calendar day (0, 1, ...) an instant lies in.
DayOf(t) == t \div MsPerDay

\* Standard working hours: 8 AM - 5 PM
standardStart(clockIn) == SetHours(clockIn, 8, 0, 0, 0)
standardEnd(clockIn) == SetHours(clockIn, 17, 0, 0, 0)
\* 1.5x rate: 5 PM - 11:59 PM
ot1_5Start(clockIn) == SetHours(clockIn, 17, 0, 0, 0)
ot1_5End(clockIn) == SetHours(clockIn, 23, 59, 59, 999)
\* 2x rate: 12 AM - 8 AM
ot2Start(clockIn) == SetHours(clockIn, 0, 0, 0, 0)
ot2End(clockIn) == SetHours(clockIn, 8, 0, 0, 0)

\* The body of periods.forEach up to the switch: the time of [clockIn,
\* clockOut] inside [start, end], 0 when periodEnd > periodStart fails.
hoursInPeriod(clockIn, clockOut, start, end) ==
    LET periodStart == Max(clockIn, start)
        periodEnd == Min(clockOut, end)
    IN  IF periodEnd > periodStart THEN periodEnd - periodStart ELSE 0

\* normalOf without its cap.
normalOfUncapped(h) == h

\* case 'normal': normalHours = Math.min(hoursInPeriod, 8)
NormalCap == 8 * MsPerHour
normalOf(h) == Min(h, NormalCap)

\* overtimePayOf paying the 1.5x hours at the plain rate.
overtimePayOfFlat(ot1_5Hours, ot2Hours, hourlyRate) ==
    (2 * ot1_5Hours * hourlyRate) + (4 * ot2Hours * hourlyRate)

\* overtimePay: (ot1_5Hours * hourlyRate * 1.5) + (ot2Hours * hourlyRate * 2)
overtimePayOf(ot1_5Hours, ot2Hours, hourlyRate) ==
    (3 * ot1_5Hours * hourlyRate) + (4 * ot2Hours * hourlyRate)

calculateOvertime(clockIn, clockOut, hourlyRate) ==
    LET totalHours == clockOut - clockIn
        normalHours ==
            normalOf(hoursInPeriod(clockIn, clockOut,
                                   standardStart(clockIn), standardEnd(clockIn)))
        ot1_5Hours ==
            hoursInPeriod(clockIn, clockOut, ot1_5Start(clockIn), ot1_5End(clockIn))
        ot2Hours ==
            hoursInPeriod(clockIn, clockOut, ot2Start(clockIn), ot2End(clockIn))
    IN  [normalHours |-> Max(0, normalHours),
         ot1_5Hours  |-> Max(0, ot1_5Hours),
         ot2Hours    |-> Max(0, ot2Hours),
         totalHours  |-> Max(0, totalHours),
         overtimePay |-> overtimePayOf(ot1_5Hours, ot2Hours, hourlyRate)]

\* adjustForBreak taking nothing.
adjustForBreakNone(c, breakMinutes) == c

\* POST, "Adjust for break time": breakHours = breakMinutes / 60 is taken
\* from normalHours and from totalHours, each clamped at 0.
adjustForBreak(c, breakMinutes) ==
    LET breakHours == breakMinutes * MsPerMinute
    IN  [c EXCEPT !.normalHours = Max(0, c.normalHours - breakHours),
                  !.totalHours  = Max(0, c.totalHours - breakHours)]


(***************************************************************************)
(* Stored data read by the handlers.                                       *)
(***************************************************************************)

\* "No value": an absent clockOut / projectAssignmentId / companyId, and the
\* id of no row.
NoTime == 0 - 1
NoAssignment == "none"
NoCompany == "none"
NoRow == 0

\* employees(id, hourly_rate, company_id): db.employee.findUnique selects
\* hourlyRate and companyId.
Employees == {"e1", "e2"}
EmployeeTable ==
    [e \in Employees |->
        IF e = "e1" THEN [hourlyRate |-> 2, companyId |-> "c1"]
                    ELSE [hourlyRate |-> 3, companyId |-> "c2"]]

\* project_assignments(id, project_id) and projects(id, actual_cost).
Projects == {"p1", "p2"}
Assignments == {"a1", "a2"}
ProjectOfAssignment(a) == IF a = "a1" THEN "p1" ELSE "p2"

\* AuthUser as verifyAuth returns it; NoUser is verifyAuth's null.
NoUser == [id |-> "null", companyId |-> NoCompany, permissions |-> {}]

\* hasPermission granting everything to everyone.
hasPermissionAlways(user, permission) == TRUE

hasPermission(user, permission) ==
    IF user = NoUser THEN FALSE
    ELSE permission \in user.permissions \/ "*" \in user.permissions

VARIABLES
    timesheets,   \* the rows of table timesheets
    actualCost,   \* projects.actual_cost, per project
    now,          \* the wall clock read by new Date()
    proc,         \* per request slot: where its handler stands, and its locals
    resp,         \* per request slot: the last response it returned
    accruals,     \* number of UPDATE projects statements the trigger has run
    lastSubmit,   \* per row id: the request body of the last upsert that wrote it
    calc          \* the classifier's last call: arguments and results

vars == <<timesheets, actualCost, now, proc, resp, accruals, lastSubmit, calc>>

Idle == [pc |-> "idle"]
NoResp == [op |-> "none", code |-> 0]
NoCalc == [called |-> FALSE]

\* The row of a key, as the unique index employeeId_date finds it.
RowsOfKey(rows, employeeId, date) ==
    {r \in rows : r.employeeId = employeeId /\ r.date = date}
RowById(rows, id) == CHOOSE r \in rows : r.id = id
HasRow(rows, id) == \E r \in rows : r.id = id


(***************************************************************************)
(* init.sql: the store-side overtime function and the cost trigger.        *)
(***************************************************************************)

\* calculate_overtime_pay paying the 1.5x hours at the plain rate.
calculate_overtime_pay_flat(p_normal_hours, p_ot1_5_hours, p_ot2_hours, p_hourly_rate) ==
    (2 * p_ot1_5_hours * p_hourly_rate) + (4 * p_ot2_hours * p_hourly_rate)

\* calculate_overtime_pay(p_normal_hours, p_ot1_5_hours, p_ot2_hours, p_hourly_rate)
calculate_overtime_pay(p_normal_hours, p_ot1_5_hours, p_ot2_hours, p_hourly_rate) ==
    (3 * p_ot1_5_hours * p_hourly_rate) + (4 * p_ot2_hours * p_hourly_rate)

\* The trigger's condition without its test of OLD.status.
TriggerConditionAnyOld(old, new) == new.status = "APPROVED"

\* The trigger's condition without its test of NEW.status.
TriggerConditionAnyNew(old, new) == old.status # "APPROVED"

\* IF NEW.status = 'APPROVED' AND OLD.status != 'APPROVED'
TriggerCondition(old, new) ==
    new.status = "APPROVED" /\ old.status # "APPROVED"

\* The amount the trigger adds: NEW.normal_hours * hourly_rate +
\* calculate_overtime_pay(...), hourly_rate read from employees.
TriggerAmount(new) ==
    LET hourly_rate == EmployeeTable[new.employeeId].hourlyRate
    IN  (2 * new.normalHours * hourly_rate)
        + calculate_overtime_pay(new.normalHours, new.ot1_5Hours,
                                 new.ot2Hours, hourly_rate)

\* A trigger that bills an entry without assignment to project p1.
TriggerTargetsDefault(new) ==
    IF new.projectAssignmentId \in Assignments
    THEN {ProjectOfAssignment(new.projectAssignmentId)}
    ELSE {"p1"}

\* WHERE id = (SELECT project_id FROM project_assignments WHERE id =
\* NEW.project_assignment_id): the projects the UPDATE touches.
TriggerTargets(new) ==
    IF new.projectAssignmentId \in Assignments
    THEN {ProjectOfAssignment(new.projectAssignmentId)}
    ELSE {}

\* A trigger that also takes the amount back when an entry leaves APPROVED.
update_project_actual_cost_reversing(old, new, cost) ==
    [p \in Projects |->
        IF p \notin TriggerTargets(new) THEN cost[p]
        ELSE IF TriggerCondition(old, new) THEN cost[p] + TriggerAmount(new)
        ELSE IF old.status = "APPROVED" /\ new.status # "APPROVED"
        THEN cost[p] - TriggerAmount(old)
        ELSE cost[p]]

\* update_project_actual_cost(), AFTER UPDATE ON timesheets FOR EACH ROW:
\* projects.actual_cost after the trigger has run for OLD -> NEW.
update_project_actual_cost(old, new, cost) ==
    IF TriggerCondition(old, new)
    THEN [p \in Projects |->
            IF p \in TriggerTargets(new) THEN cost[p] + TriggerAmount(new)
            ELSE cost[p]]
    ELSE cost

\* Whether the trigger ran its UPDATE projects statement for OLD -> NEW.
TriggerFired(old, new) == TriggerCondition(old, new)

\* An UPDATE of one row of timesheets: the row is replaced and the trigger
\* runs in the same statement.
UpdateRow(old, new) ==
    /\ timesheets' = (timesheets \ {old}) \cup {new}
    /\ actualCost' = update_project_actual_cost(old, new, actualCost)
    /\ accruals' = IF TriggerFired(old, new) THEN accruals + 1 ELSE accruals

\* An UPDATE of timesheets whose trigger raised, the row kept as updated.
UpdateRowAbortedKeepingRow(old, new) ==
    /\ timesheets' = (timesheets \ {old}) \cup {new}
    /\ UNCHANGED <<actualCost, accruals>>

\* An UPDATE of timesheets whose trigger raised in its UPDATE projects: the
\* trigger function has no EXCEPTION block and runs AFTER UPDATE ... FOR EACH
\* ROW inside the statement, so the error aborts the statement and neither
\* the row nor projects.actual_cost is changed.
UpdateRowAborted(old, new) ==
    UNCHANGED <<timesheets, actualCost, accruals>>

(***************************************************************************)
(* POST /api/timesheets.                                                   *)
(***************************************************************************)

\* No unique index on (employeeId, date).
NoUniqueIndex(rows, employeeId, date) == FALSE

\* The unique index behind where: { employeeId_date }: an INSERT of a second
\* row for a key is refused.
UniqueViolation(rows, employeeId, date) ==
    RowsOfKey(rows, employeeId, date) # {}

\* The fields both branches of the upsert write.
UpsertData(clockInTime, clockOutTime, breakMinutes, c, projectAssignmentId) ==
    [clockIn |-> clockInTime,
     clockOut |-> clockOutTime,
     breakMinutes |-> breakMinutes,
     normalHours |-> c.normalHours,
     ot1_5Hours |-> c.ot1_5Hours,
     ot2Hours |-> c.ot2Hours,
     totalHours |-> c.totalHours,
     projectAssignmentId |-> projectAssignmentId,
     status |-> "PENDING"]

\* create: { employeeId, date, ... }
CreatedRow(id, employeeId, date, d) ==
    [id |-> id, employeeId |-> employeeId, date |-> date,
     clockIn |-> d.clockIn, clockOut |-> d.clockOut,
     breakMinutes |-> d.breakMinutes,
     normalHours |-> d.normalHours, ot1_5Hours |-> d.ot1_5Hours,
     ot2Hours |-> d.ot2Hours, totalHours |-> d.totalHours,
     projectAssignmentId |-> d.projectAssignmentId, status |-> d.status]

\* The update branch leaving the status as it was.
UpdatedRowKeepingStatus(old, d) ==
    CreatedRow(old.id, old.employeeId, old.date, [d EXCEPT !.status = old.status])

\* update: { ... }: every field but id, employeeId and date is overwritten.
UpdatedRow(old, d) == CreatedRow(old.id, old.employeeId, old.date, d)

\* The handler up to the upsert's read of the key: authentication, the
\* employee lookup, the company check, the overtime calculation and the
\* break adjustment.  body is the request's JSON.  An upsert with an include
\* is carried out as a read of the unique key followed by an INSERT or an
\* UPDATE, so another request may write between the two.
SubmitBegin(w, user, body) ==
    /\ proc[w] = Idle
    /\ UNCHANGED <<timesheets, actualCost, now, accruals, lastSubmit, calc>>
    /\ IF ~hasPermission(user, "timesheets.create")
       THEN /\ resp' = [resp EXCEPT ![w] = [op |-> "submit", code |-> 401]]
            /\ UNCHANGED proc
       ELSE IF body.employeeId \notin DOMAIN EmployeeTable
       THEN /\ resp' = [resp EXCEPT ![w] = [op |-> "submit", code |-> 404]]
            /\ UNCHANGED proc
       ELSE IF /\ user.companyId # NoCompany
               /\ EmployeeTable[body.employeeId].companyId # user.companyId
       THEN /\ resp' = [resp EXCEPT ![w] = [op |-> "submit", code |-> 403]]
            /\ UNCHANGED proc
       ELSE LET employee == EmployeeTable[body.employeeId]
                clockInTime == body.clockIn
                clockOutTime == IF body.clockOut # NoTime THEN body.clockOut ELSE now
                overtimeCalculation ==
                    adjustForBreak(
                        calculateOvertime(clockInTime, clockOutTime, employee.hourlyRate),
                        body.breakMinutes)
                found == RowsOfKey(timesheets, body.employeeId, body.date)
            IN  /\ proc' = [proc EXCEPT ![w] =
                       [pc |-> "upsert_write",
                        caller |-> user,
                        body |-> body,
                        data |-> UpsertData(clockInTime, clockOutTime, body.breakMinutes,
                                            overtimeCalculation, body.projectAssignmentId),
                        overtimePay |-> overtimeCalculation.overtimePay,
                        found |-> IF found = {} THEN NoRow
                                  ELSE (CHOOSE r \in found : TRUE).id]]
                /\ resp' = [resp EXCEPT ![w] = NoResp]

\* The upsert's write: INSERT when the read found no row, UPDATE of the row
\* found otherwise; then the response.  A refused INSERT throws, and the
\* handler's catch answers 500.
UpsertWrite(w) ==
    /\ proc[w].pc = "upsert_write"
    /\ UNCHANGED <<now, calc>>
    /\ proc' = [proc EXCEPT ![w] = Idle]
    /\ LET p == proc[w] IN
       IF p.found = NoRow
       THEN IF UniqueViolation(timesheets, p.body.employeeId, p.body.date)
            THEN /\ resp' = [resp EXCEPT ![w] =
                        [op |-> "submit", code |-> 500]]
                 /\ UNCHANGED <<timesheets, actualCost, accruals, lastSubmit>>
            ELSE LET row == CreatedRow(Cardinality(timesheets) + 1,
                                       p.body.employeeId, p.body.date, p.data)
                 IN  /\ timesheets' = timesheets \cup {row}
                     /\ lastSubmit' = (row.id :> p.body) @@ lastSubmit
                     /\ resp' = [resp EXCEPT ![w] =
                            [op |-> "submit", code |-> 200, body |-> p.body,
                             timesheet |-> row, overtimePay |-> p.overtimePay]]
                     /\ UNCHANGED <<actualCost, accruals>>
       ELSE LET old == RowById(timesheets, p.found)
                row == UpdatedRow(old, p.data)
            IN  /\ UpdateRow(old, row)
                /\ lastSubmit' = (row.id :> p.body) @@ lastSubmit
                /\ resp' = [resp EXCEPT ![w] =
                       [op |-> "submit", code |-> 200, body |-> p.body,
                        timesheet |-> row, overtimePay |-> p.overtimePay]]


(***************************************************************************)
(* approveTimesheet / rejectTimesheet (PUT /api/timesheets/:id) and        *)
(* getPayrollSummary.  These handlers are modelled after the design        *)
(* document (sections 4.3, 4.4, 6, 7), in the shape of the POST handler:   *)
(* a read of the entry, then one UPDATE of its status.  The UPDATE runs    *)
(* the trigger of init.sql in the same statement; PostgreSQL serialises    *)
(* the UPDATEs of one row, so each sees the row the previous one left.     *)
(***************************************************************************)

\* Bound on the accrual statements of a run.
MaxAccruals == 2

\* The status an entry must be read in for the transition to be attempted.
MayTransition(row) == row.status = "PENDING"

\* The handler's read.  Entry missing: 404.  Not PENDING: ConflictError (409).
\* seen and base record what the read observed: the row and actual_cost.
TransitionBegin(w, op, id) ==
    /\ proc[w] = Idle
    /\ UNCHANGED <<timesheets, actualCost, now, accruals, lastSubmit, calc>>
    /\ IF ~HasRow(timesheets, id)
       THEN /\ resp' = [resp EXCEPT ![w] = [op |-> op, code |-> 404, id |-> id]]
            /\ UNCHANGED proc
       ELSE IF ~MayTransition(RowById(timesheets, id))
       THEN /\ resp' = [resp EXCEPT ![w] = [op |-> op, code |-> 409, id |-> id]]
            /\ UNCHANGED proc
       ELSE /\ proc' = [proc EXCEPT ![w] =
                   [pc |-> op, id |-> id,
                    seen |-> RowById(timesheets, id), base |-> actualCost]]
            /\ resp' = [resp EXCEPT ![w] = NoResp]

\* The handler's write: UPDATE timesheets SET status = ... WHERE id = ...
TransitionUpdate(w, op, status) ==
    /\ proc[w].pc = op
    /\ UNCHANGED <<now, lastSubmit, calc>>
    /\ LET old == RowById(timesheets, proc[w].id)
           row == [old EXCEPT !.status = status]
       IN  /\ UpdateRow(old, row)
           /\ resp' = [resp EXCEPT ![w] =
                  [op |-> op, code |-> 200, id |-> old.id, timesheet |-> row,
                   seen |-> proc[w].seen, base |-> proc[w].base]]
    /\ proc' = [proc EXCEPT ![w] = Idle]

ApproveBegin(w, id) == accruals < MaxAccruals /\ TransitionBegin(w, "approve", id)
ApproveUpdate(w) == TransitionUpdate(w, "approve", "APPROVED")
RejectBegin(w, id) == TransitionBegin(w, "reject", id)
RejectUpdate(w) == TransitionUpdate(w, "reject", "REJECTED")

\* The handler's write when the statement is aborted by the trigger: only an
\* UPDATE that makes the trigger run its UPDATE projects on a project can
\* fail this way.  The error is answered as the POST handler's catch does.
TransitionUpdateFails(w, op, status) ==
    /\ proc[w].pc = op
    /\ UNCHANGED <<now, lastSubmit, calc>>
    /\ LET old == RowById(timesheets, proc[w].id)
           row == [old EXCEPT !.status = status]
       IN  /\ TriggerFired(old, row)
           /\ TriggerTargets(row) # {}
           /\ UpdateRowAborted(old, row)
           /\ resp' = [resp EXCEPT ![w] = [op |-> op, code |-> 500, id |-> old.id]]
    /\ proc' = [proc EXCEPT ![w] = Idle]

ApproveUpdateFails(w) == TransitionUpdateFails(w, "approve", "APPROVED")

\* InPayroll without its test of the status.
InPayrollAnyStatus(r, employeeId, startDate, endDate) ==
    /\ r.employeeId = employeeId
    /\ startDate <= r.date /\ r.date <= endDate

\* Whether an entry counts in a payroll summary.
InPayroll(r, employeeId, startDate, endDate) ==
    /\ r.employeeId = employeeId
    /\ r.status = "APPROVED"
    /\ startDate <= r.date /\ r.date <= endDate

ZeroTotals == [normalHours |-> 0, ot1_5Hours |-> 0, ot2Hours |-> 0, pay |-> 0]

\* The pay of one entry: normalHours*rate + eveningHours*rate*1.5 +
\* nightHours*rate*2.0.
EntryPay(r) ==
    LET rate == EmployeeTable[r.employeeId].hourlyRate
    IN  (2 * r.normalHours * rate) + (3 * r.ot1_5Hours * rate) + (4 * r.ot2Hours * rate)

\* The roll-up: the entries are added to the totals one at a time.
RECURSIVE SumEntries(_, _)
SumEntries(rows, acc) ==
    IF rows = {} THEN acc
    ELSE LET r == CHOOSE x \in rows : TRUE
         IN  SumEntries(rows \ {r},
                        [normalHours |-> acc.normalHours + r.normalHours,
                         ot1_5Hours |-> acc.ot1_5Hours + r.ot1_5Hours,
                         ot2Hours |-> acc.ot2Hours + r.ot2Hours,
                         pay |-> acc.pay + EntryPay(r)])

PayrollTotals(rows, employeeId, startDate, endDate) ==
    SumEntries({r \in rows : InPayroll(r, employeeId, startDate, endDate)}, ZeroTotals)

\* A payroll answer that is an error when no entry matches.
PayrollCodeNotFound(rows, employeeId, startDate, endDate) ==
    IF \E r \in rows : InPayroll(r, employeeId, startDate, endDate) THEN 200 ELSE 404

\* The status of the payroll answer: always a result, also when nothing matches.
PayrollCode(rows, employeeId, startDate, endDate) == 200

GetPayrollSummary(w, employeeId, startDate, endDate) ==
    /\ proc[w] = Idle
    /\ UNCHANGED <<timesheets, actualCost, now, proc, accruals, lastSubmit, calc>>
    /\ resp' = [resp EXCEPT ![w] =
           [op |-> "payroll",
            code |-> PayrollCode(timesheets, employeeId, startDate, endDate),
            employeeId |-> employeeId, startDate |-> startDate, endDate |-> endDate,
            totals |-> PayrollTotals(timesheets, employeeId, startDate, endDate)]]


(***************************************************************************)
(* GET /api/timesheets and GET /api/employees: the list handlers.          *)
(***************************************************************************)

\* An absent query parameter (searchParams.get gives null).
NoParam == "null"
NoDate == 0 - 1

\* The where clause of GET /api/timesheets without its company filter.
TimesheetWhereAnyCompany(user, q, r) ==
    /\ q.employeeId # NoParam => r.employeeId = q.employeeId
    /\ q.status # NoParam => r.status = q.status
    /\ (q.startDate # NoDate /\ q.endDate # NoDate)
          => (q.startDate <= r.date /\ r.date <= q.endDate)

\* const where = { ...(user.companyId && { employee: { companyId } }),
\* ...(employeeId && { employeeId }), ...(status && { status }),
\* ...(startDate && endDate && { date: { gte, lte } }) }: whether row r matches.
TimesheetWhere(user, q, r) ==
    /\ user.companyId # NoCompany
          => EmployeeTable[r.employeeId].companyId = user.companyId
    /\ q.employeeId # NoParam => r.employeeId = q.employeeId
    /\ q.status # NoParam => r.status = q.status
    /\ (q.startDate # NoDate /\ q.endDate # NoDate)
          => (q.startDate <= r.date /\ r.date <= q.endDate)

\* The orders findMany may return the rows S in: ranked by key (a function
\* on S) descending,
\* rows of equal key in any order.
OrdersDesc(S, key) ==
    {o \in [1 .. Cardinality(S) -> S] :
        /\ \A i, j \in 1 .. Cardinality(S) : i # j => o[i] # o[j]
        /\ \A i, j \in 1 .. Cardinality(S) : i < j => key[o[i]] >= key[o[j]]}

\* skip: (page - 1) * limit, take: limit
PageOf(order, page, limit) ==
    SubSeq(order, (page - 1) * limit + 1, Min(page * limit, Len(order)))

\* pages: Math.ceil(total / limit)
PagesOf(total, limit) == (total + limit - 1) \div limit

\* GET /api/timesheets.  The rows are returned as stored; the employee and
\* project joined to each row are left out of the answer.
ListTimesheets(w, user, q) ==
    /\ proc[w] = Idle
    /\ UNCHANGED <<timesheets, actualCost, now, proc, accruals, lastSubmit, calc>>
    /\ IF ~hasPermission(user, "timesheets.read")
       THEN resp' = [resp EXCEPT ![w] = [op |-> "list", code |-> 401, caller |-> user]]
       ELSE LET matching == {r \in timesheets : TimesheetWhere(user, q, r)}
            IN  \E order \in OrdersDesc(matching, [r \in matching |-> r.date]) :
                   resp' = [resp EXCEPT ![w] =
                       [op |-> "list", code |-> 200, caller |-> user, query |-> q,
                        timesheets |-> PageOf(order, q.page, q.limit),
                        total |-> Cardinality(matching),
                        pages |-> PagesOf(Cardinality(matching), q.limit)]]

\* The searchable fields of an employee are stood for by its code, and a
\* search string of the model is a whole code: contains is equality.
SearchMatches(e, search) == search = "" \/ search = e

\* { ...(user.companyId && { companyId: user.companyId }),
\*   ...(companyId && { companyId }) }: the later spread overwrites the key,
\* so the query parameter wins over the caller's company.
EmployeeCompanyFilter(user, companyId) ==
    IF companyId # NoParam THEN companyId
    ELSE IF user.companyId # NoCompany THEN user.companyId
    ELSE NoParam

EmployeeWhere(user, q, e) ==
    /\ EmployeeCompanyFilter(user, q.companyId) # NoParam
          => EmployeeTable[e].companyId = EmployeeCompanyFilter(user, q.companyId)
    /\ SearchMatches(e, q.search)

\* GET /api/employees.  createdAt is not among the modelled columns, so
\* every order of the matching employees is possible.
ListEmployees(w, user, q) ==
    /\ proc[w] = Idle
    /\ UNCHANGED <<timesheets, actualCost, now, proc, accruals, lastSubmit, calc>>
    /\ IF ~hasPermission(user, "employees.read")
       THEN resp' = [resp EXCEPT ![w] =
                [op |-> "employees", code |-> 401, caller |-> user]]
       ELSE LET matching == {e \in Employees : EmployeeWhere(user, q, e)}
            IN  \E order \in OrdersDesc(matching, [e \in matching |-> 0]) :
                   resp' = [resp EXCEPT ![w] =
                       [op |-> "employees", code |-> 200, caller |-> user, query |-> q,
                        employees |-> PageOf(order, q.page, q.limit),
                        total |-> Cardinality(matching),
                        pages |-> PagesOf(Cardinality(matching), q.limit)]]


(***************************************************************************)
(* The environment: the clock, the requests that arrive, and the           *)
(* specifications.                                                         *)
(***************************************************************************)

\* The instant hour:00 of a day.
At(day, hour) == day * MsPerDay + hour * MsPerHour

\* The Employee role of init.sql, held by a user of company c1.
EmployeeUser ==
    [id |-> "u1", companyId |-> "c1",
     permissions |-> {"timesheets.create", "timesheets.read_own", "leaves.create",
                      "leaves.read_own", "profile.read", "profile.update"}]

\* The instants the wall clock shows during a run.
NowTimes == {At(0, 18), At(0, 20)}

Tick ==
    /\ \E t \in NowTimes : t > now /\ now' = t
    /\ UNCHANGED <<timesheets, actualCost, proc, resp, accruals, lastSubmit, calc>>

\* A direct call of the classifier and of the break adjustment.
Classify(clockIn, clockOut, hourlyRate, breakMinutes) ==
    /\ calc = NoCalc
    /\ calc' = [called |-> TRUE, clockIn |-> clockIn, clockOut |-> clockOut,
                hourlyRate |-> hourlyRate, breakMinutes |-> breakMinutes,
                raw |-> calculateOvertime(clockIn, clockOut, hourlyRate),
                adjusted |-> adjustForBreak(
                                calculateOvertime(clockIn, clockOut, hourlyRate),
                                breakMinutes)]
    /\ UNCHANGED <<timesheets, actualCost, now, proc, resp, accruals, lastSubmit>>

InitWith(workers) ==
    /\ timesheets = {}
    /\ actualCost = [p \in Projects |-> 0]
    /\ now = At(0, 18)
    /\ proc = [w \in workers |-> Idle]
    /\ resp = [w \in workers |-> NoResp]
    /\ accruals = 0
    /\ lastSubmit = <<>>
    /\ calc = NoCalc

\* Spec: one request at a time.
Dates == {0, 1}
RowIds == 1 .. (Cardinality(Employees) * Cardinality(Dates))
LedgerBodies ==
    [employeeId : {"e1", "e2", "e0"}, date : Dates, clockIn : {At(0, 9)},
     clockOut : {At(0, 19), NoTime}, breakMinutes : {60},
     projectAssignmentId : {NoAssignment, "a1"}]

Init == InitWith({"w1"})

Next ==
    \/ \E w \in DOMAIN proc, user \in {NoUser, EmployeeUser}, body \in LedgerBodies :
          SubmitBegin(w, user, body)
    \/ \E w \in DOMAIN proc : UpsertWrite(w)
    \/ \E w \in DOMAIN proc, id \in RowIds : ApproveBegin(w, id)
    \/ \E w \in DOMAIN proc : ApproveUpdate(w)
    \/ \E w \in DOMAIN proc, id \in RowIds : RejectBegin(w, id)
    \/ \E w \in DOMAIN proc : RejectUpdate(w)
    \/ \E w \in DOMAIN proc, e \in {"e1"}, s \in Dates, t \in Dates :
          GetPayrollSummary(w, e, s, t)
    \/ Tick

Spec == Init /\ [][Next]_vars

\* SpecRace: two requests in flight on one key.
RaceBodies ==
    [employeeId : {"e1"}, date : {0}, clockIn : {At(0, 9)},
     clockOut : {At(0, 19), At(0, 20)}, breakMinutes : {60},
     projectAssignmentId : {"a1"}]

InitRace == InitWith({"w1", "w2"})

NextRace ==
    \/ \E w \in DOMAIN proc, body \in RaceBodies : SubmitBegin(w, EmployeeUser, body)
    \/ \E w \in DOMAIN proc : UpsertWrite(w)
    \/ \E w \in DOMAIN proc, id \in {1, 2} : ApproveBegin(w, id)
    \/ \E w \in DOMAIN proc : ApproveUpdate(w)
    \/ \E w \in DOMAIN proc, id \in {1, 2} : RejectBegin(w, id)
    \/ \E w \in DOMAIN proc : RejectUpdate(w)

SpecRace == InitRace /\ [][NextRace]_vars

\* SpecCalc: the classifier on a grid of instants.
MaxRate == 2
CalcTimes ==
    {At(0, 0) + k * 30 * MsPerMinute : k \in {0, 15, 16, 17, 18, 24, 33, 34, 35, 38, 44, 47}}
    \cup {ot1_5End(At(0, 0)), At(1, 0), At(1, 6), At(1, 9)}
CalcBreaks == {0, 30, 60, 600}

InitCalc == InitWith({"w1"})

NextCalc ==
    \E clockIn \in CalcTimes, clockOut \in CalcTimes,
       hourlyRate \in 0 .. MaxRate, breakMinutes \in CalcBreaks :
          Classify(clockIn, clockOut, hourlyRate, breakMinutes)

SpecCalc == InitCalc /\ [][NextCalc]_vars

\* SpecEdge: one request at a time on one key, with intervals at and beyond
\* the edge of the WorkInterval domain (clockOut before or at clockIn, a
\* break longer than the interval) and a project store that may fail.
EdgeBodies ==
    [employeeId : {"e1"}, date : {0}, clockIn : {At(0, 7)},
     clockOut : {At(0, 6), At(0, 7), At(0, 8), At(0, 19)}, breakMinutes : {0, 30, 120},
     projectAssignmentId : {NoAssignment, "a1"}]

InitEdge == InitWith({"w1"})

NextEdge ==
    \/ \E w \in DOMAIN proc, body \in EdgeBodies : SubmitBegin(w, EmployeeUser, body)
    \/ \E w \in DOMAIN proc : UpsertWrite(w)
    \/ \E w \in DOMAIN proc, id \in {1} : ApproveBegin(w, id)
    \/ \E w \in DOMAIN proc : ApproveUpdate(w)
    \/ \E w \in DOMAIN proc : ApproveUpdateFails(w)
    \/ \E w \in DOMAIN proc, id \in {1} : RejectBegin(w, id)
    \/ \E w \in DOMAIN proc : RejectUpdate(w)

SpecEdge == InitEdge /\ [][NextEdge]_vars


\* SpecTenant: one request at a time, callers of two companies holding the
\* seeded roles of init.sql, submissions and the two lists.
EmployeeUser2 ==
    [id |-> "u2", companyId |-> "c2", permissions |-> EmployeeUser.permissions]

\* The Project Manager role, held by a user of company c1.
ManagerUser ==
    [id |-> "u3", companyId |-> "c1",
     permissions |-> {"projects.*", "timesheets.read", "timesheets.approve",
                      "reports.project"}]

\* The HR Manager role, held by a user of company c1.
HRUser ==
    [id |-> "u4", companyId |-> "c1",
     permissions |-> {"employees.read", "employees.create", "employees.update",
                      "timesheets.*", "payroll.*", "leaves.*"}]

\* The Super Admin role, held by a user bound to no company.
SuperUser == [id |-> "u5", companyId |-> NoCompany, permissions |-> {"*"}]

TenantUsers == {NoUser, EmployeeUser, EmployeeUser2, ManagerUser, HRUser, SuperUser}

TenantBodies ==
    {b \in [employeeId : {"e1", "e2", "e0"}, date : Dates, clockIn : {At(0, 9)},
            clockOut : {At(0, 19)}, breakMinutes : {60},
            projectAssignmentId : {NoAssignment}] :
        b.employeeId = "e1" \/ b.date = 0}

TimesheetQueries ==
    [employeeId : {NoParam, "e2"}, status : {NoParam, "PENDING"},
     startDate : {NoDate, 0}, endDate : {0},
     page : {1, 2}, limit : {1, 10}]

EmployeeQueries ==
    [companyId : {NoParam, "c1", "c2"}, search : {"", "e1"},
     page : {1, 2}, limit : {1, 10}]

InitTenant == InitWith({"w1"})

NextTenant ==
    \/ \E w \in DOMAIN proc, user \in TenantUsers, body \in TenantBodies :
          SubmitBegin(w, user, body)
    \/ \E w \in DOMAIN proc : UpsertWrite(w)
    \/ \E w \in DOMAIN proc, user \in TenantUsers, q \in TimesheetQueries :
          ListTimesheets(w, user, q)
    \/ \E w \in DOMAIN proc, user \in TenantUsers, q \in EmployeeQueries :
          ListEmployees(w, user, q)

SpecTenant == InitTenant /\ [][NextTenant]_vars


(***************************************************************************)
(* Properties.                                                             *)
(***************************************************************************)

\* Slot w completes a handler standing at pc in this step.
Completes(w, pc) == proc[w].pc = pc /\ proc'[w] = Idle

Hours(h) == h * 3600000

\* C1: a submitTimesheet for the key of an APPROVED entry fails with a
\* ConflictError (409) and leaves every stored entry unchanged.
C1_ApprovedResubmitRefused ==
    [][\A w \in DOMAIN proc :
          (/\ Completes(w, "upsert_write")
           /\ \E r \in timesheets :
                 /\ r.employeeId = proc[w].body.employeeId
                 /\ r.date = proc[w].body.date
                 /\ r.status = "APPROVED")
          => (resp'[w].code = 409 /\ timesheets' = timesheets)]_vars

\* A successful approval in a response.
ApprovedOk(r) == r.op = "approve" /\ r.code = 200

\* Two approvals that both read the same entry as PENDING with the same
\* actual_cost, and have both returned.
BothApproved(w1, w2) ==
    /\ w1 # w2
    /\ ApprovedOk(resp[w1]) /\ ApprovedOk(resp[w2])
    /\ resp[w1].id = resp[w2].id
    /\ resp[w1].seen = resp[w2].seen
    /\ resp[w1].base = resp[w2].base
    /\ resp[w1].seen.status = "PENDING"

\* C2: when two approvals of the same PENDING entry run concurrently, the
\* owning project's actualCost has grown by the entry's delta exactly once
\* when both have returned, and no other project's cost has changed.
C2_ConcurrentApprovalAccruesOnce ==
    \A w1 \in DOMAIN resp, w2 \in DOMAIN resp :
        BothApproved(w1, w2) =>
            LET e == resp[w1].seen
                rate == EmployeeTable[e.employeeId].hourlyRate
                delta == (2 * e.normalHours * rate) + (3 * e.ot1_5Hours * rate)
                         + (4 * e.ot2Hours * rate)
                owner == ProjectOfAssignment(e.projectAssignmentId)
            IN  /\ e.projectAssignmentId \in Assignments
                /\ delta > 0
                /\ actualCost = [resp[w1].base EXCEPT ![owner] = @ + delta]

C2_Witness ==
    \E w1 \in DOMAIN resp, w2 \in DOMAIN resp : BothApproved(w1, w2)

\* The rows the UPDATE of a completing handler applies to.
UpdatedRows(w) ==
    IF proc[w].pc \in {"approve", "reject"}
    THEN {r \in timesheets : r.id = proc[w].id}
    ELSE IF proc[w].pc = "upsert_write"
    THEN {r \in timesheets : r.id = proc[w].found}
    ELSE {}

\* C3: an approval or any other update applied to an entry that is already
\* APPROVED adds nothing to any project's actualCost; every accrual goes
\* with a transition of one entry into APPROVED, one accrual per transition.
C3_AccrualOnlyOnTransition ==
    [][/\ \A w \in DOMAIN proc :
             (/\ proc'[w] = Idle
              /\ \E r \in UpdatedRows(w) : r.status = "APPROVED")
             => actualCost' = actualCost
       /\ actualCost' # actualCost =>
             /\ accruals' = accruals + 1
             /\ \E r \in timesheets, n \in timesheets' :
                   /\ n.id = r.id
                   /\ r.status # "APPROVED"
                   /\ n.status = "APPROVED"]_vars

\* A retried approval has reached the store: both slots hold a successful
\* approval of one entry, and one accrual has been made.
C3_Witness ==
    /\ accruals = 1
    /\ \E w1 \in DOMAIN resp, w2 \in DOMAIN resp :
          /\ w1 # w2
          /\ ApprovedOk(resp[w1]) /\ ApprovedOk(resp[w2])
          /\ resp[w1].id = resp[w2].id

\* C4: when an entry linked to a project assignment goes PENDING -> APPROVED,
\* the owning project's actualCost grows by normalHours*rate +
\* eveningHours*rate*1.5 + nightHours*rate*2.0 and no other project's changes.
C4_ApprovalAddsDelta ==
    [][\A w \in DOMAIN proc :
          (/\ Completes(w, "approve")
           /\ \E r \in timesheets :
                 /\ r.id = proc[w].id
                 /\ r.status = "PENDING"
                 /\ r.projectAssignmentId \in Assignments)
          => LET e == CHOOSE r \in timesheets : r.id = proc[w].id
                 rate == EmployeeTable[e.employeeId].hourlyRate
                 owner == ProjectOfAssignment(e.projectAssignmentId)
             IN  actualCost' =
                    [p \in Projects |->
                       IF p = owner
                       THEN actualCost[p] + (2 * e.normalHours * rate)
                                + (3 * e.ot1_5Hours * rate) + (4 * e.ot2Hours * rate)
                       ELSE actualCost[p]]]_vars

C4_Witness ==
    \E w \in DOMAIN resp :
        /\ ApprovedOk(resp[w])
        /\ resp[w].seen.status = "PENDING"
        /\ resp[w].timesheet.projectAssignmentId = "a1"
        /\ resp[w].timesheet.ot1_5Hours > 0
        /\ actualCost["p1"] > resp[w].base["p1"]
        /\ actualCost["p2"] = 0

\* C5: the ledger holds at most one entry per (employeeId, date).
C5_OneEntryPerKey ==
    \A r1 \in timesheets, r2 \in timesheets :
        (r1.employeeId = r2.employeeId /\ r1.date = r2.date) => r1 = r2

\* Two creations of one key have raced: one was refused by the index.
C5_Witness ==
    /\ timesheets # {}
    /\ \E w \in DOMAIN resp : resp[w].op = "submit" /\ resp[w].code = 500

\* C6: submitting the same WorkInterval twice while the entry is PENDING
\* yields the same derived fields and leaves the stored entry identical.
C6_ResubmitIdempotent ==
    [][\A w \in DOMAIN proc :
          (/\ Completes(w, "upsert_write")
           /\ \E r \in timesheets :
                 /\ r.id = proc[w].found
                 /\ r.status = "PENDING"
                 /\ lastSubmit[r.id] = proc[w].body)
          => /\ timesheets' = timesheets
             /\ resp'[w].code = 200
             /\ resp'[w].timesheet \in timesheets]_vars


\* What the APPROVED entry of employee e on date d, if there is one, adds to
\* a total.
ApprovedOfDay(e, d, field) ==
    LET S == {r \in timesheets :
                 r.employeeId = e /\ r.date = d /\ r.status = "APPROVED"}
    IN  IF S = {} THEN 0
        ELSE LET r == CHOOSE x \in S : TRUE
                 rate == EmployeeTable[e].hourlyRate
             IN  IF field = "pay"
                 THEN (2 * r.normalHours * rate) + (3 * r.ot1_5Hours * rate)
                      + (4 * r.ot2Hours * rate)
                 ELSE r[field]

RECURSIVE ApprovedOfRange(_, _, _, _)
ApprovedOfRange(e, d, endDate, field) ==
    IF d > endDate THEN 0
    ELSE ApprovedOfDay(e, d, field) + ApprovedOfRange(e, d + 1, endDate, field)

\* Slot w answers a payroll request in this step.
AnswersPayroll(w) == resp'[w] # resp[w] /\ resp'[w].op = "payroll"

\* C7: getPayrollSummary(employeeId, start, end) is the sum of hours and pay
\* over the entries of that employee that are APPROVED at the time of the
\* call and dated within [start, end]; PENDING and REJECTED entries add
\* nothing.
C7_PayrollSumsApproved ==
    [][\A w \in DOMAIN proc :
          AnswersPayroll(w) =>
             \A field \in {"normalHours", "ot1_5Hours", "ot2Hours", "pay"} :
                 resp'[w].totals[field] =
                    ApprovedOfRange(resp'[w].employeeId, resp'[w].startDate,
                                    resp'[w].endDate, field)]_vars

C7_Witness ==
    \E w \in DOMAIN resp :
        /\ resp[w].op = "payroll"
        /\ resp[w].totals.pay > 0
        /\ resp[w].startDate < resp[w].endDate
        /\ \E r \in timesheets :
              /\ r.employeeId = resp[w].employeeId
              /\ r.date \in resp[w].startDate .. resp[w].endDate
              /\ r.status # "APPROVED"
              /\ r.normalHours > 0

\* C8: over a range in which the employee has no APPROVED entry,
\* getPayrollSummary answers with a result (200) whose totals are all zero.
C8_PayrollZeroWhenNoneApproved ==
    [][\A w \in DOMAIN proc :
          (/\ AnswersPayroll(w)
           /\ ~ \E r \in timesheets :
                   /\ r.employeeId = resp'[w].employeeId
                   /\ r.status = "APPROVED"
                   /\ resp'[w].startDate <= r.date
                   /\ r.date <= resp'[w].endDate)
          => /\ resp'[w].code = 200
             /\ \A field \in {"normalHours", "ot1_5Hours", "ot2Hours", "pay"} :
                   resp'[w].totals[field] = 0]_vars

C8_Witness ==
    \E w \in DOMAIN resp :
        /\ resp[w].op = "payroll"
        /\ resp[w].code = 200
        /\ resp[w].totals.pay = 0
        /\ \E r \in timesheets :
              /\ r.employeeId = resp[w].employeeId
              /\ r.date \in resp[w].startDate .. resp[w].endDate
              /\ r.status = "REJECTED"

\* C9: for clockIn < clockOut within one calendar day, the classifier's
\* normalHours + eveningHours + nightHours before the break is the elapsed
\* time, and each of the three is >= 0.
C9_TiersSumToElapsed ==
    (/\ calc.called
     /\ calc.clockIn < calc.clockOut
     /\ calc.clockIn \div Hours(24) = calc.clockOut \div Hours(24))
    => /\ calc.raw.normalHours + calc.raw.ot1_5Hours + calc.raw.ot2Hours
              = calc.clockOut - calc.clockIn
       /\ calc.raw.normalHours >= 0
       /\ calc.raw.ot1_5Hours >= 0
       /\ calc.raw.ot2Hours >= 0

\* C10: the classifier's normalHours, and the normalHours left after the
\* break deduction, are at most 8 hours for every interval.
C10_NormalAtMostEight ==
    calc.called =>
        /\ calc.raw.normalHours <= Hours(8)
        /\ calc.adjusted.normalHours <= Hours(8)

\* An interval covering the whole 08:00-17:00 window (9 hours) was classified.
C10_Witness ==
    /\ calc.called
    /\ calc.clockIn % Hours(24) <= Hours(8)
    /\ calc.clockOut >= (calc.clockIn \div Hours(24)) * Hours(24) + Hours(17)
    /\ calc.raw.normalHours = Hours(8)
    /\ calc.adjusted.normalHours = Hours(8)

\* A submission outside the WorkInterval domain: clockOut not strictly after
\* clockIn, or a break longer than the elapsed time.
InvalidInterval(d) ==
    \/ d.clockOut <= d.clockIn
    \/ d.breakMinutes * MsPerMinute > d.clockOut - d.clockIn

\* C11: a submitTimesheet whose clockOut is not strictly after clockIn, or
\* whose break exceeds the elapsed time, is answered with a ValidationError
\* (400) and writes nothing to the ledger.
C11_InvalidIntervalRefused ==
    [][\A w \in DOMAIN proc :
          (Completes(w, "upsert_write") /\ InvalidInterval(proc[w].data))
          => (resp'[w].code = 400 /\ timesheets' = timesheets)]_vars

\* C12: the break is taken from NORMAL first, what NORMAL cannot cover from
\* EVENING, what is still left from NIGHT, so that the three tiers together
\* decrease by exactly the break.
C12_BreakFromNormalThenEveningThenNight ==
    (/\ calc.called
     /\ calc.clockIn < calc.clockOut
     /\ calc.breakMinutes * MsPerMinute
           <= calc.raw.normalHours + calc.raw.ot1_5Hours + calc.raw.ot2Hours)
    => LET breakHours == calc.breakMinutes * MsPerMinute
           fromNormal == Min(breakHours, calc.raw.normalHours)
           fromEvening == Min(breakHours - fromNormal, calc.raw.ot1_5Hours)
           fromNight == breakHours - fromNormal - fromEvening
       IN  /\ calc.adjusted.normalHours = calc.raw.normalHours - fromNormal
           /\ calc.adjusted.ot1_5Hours = calc.raw.ot1_5Hours - fromEvening
           /\ calc.adjusted.ot2Hours = calc.raw.ot2Hours - fromNight
           /\ calc.adjusted.normalHours + calc.adjusted.ot1_5Hours
                  + calc.adjusted.ot2Hours
                = calc.raw.normalHours + calc.raw.ot1_5Hours + calc.raw.ot2Hours
                  - breakHours

\* C13: every stored entry of a valid interval has totalHours = normalHours +
\* eveningHours + nightHours, all after the break deduction.
C13_TotalIsSumOfTiers ==
    \A r \in timesheets :
        ~InvalidInterval(r)
        => r.totalHours = r.normalHours + r.ot1_5Hours + r.ot2Hours

\* A submission answered with success.
SubmitOk(r) == r.op = "submit" /\ r.code = 200

\* C14: the overtimePay a submission returns is eveningHours*rate*1.5 +
\* nightHours*rate*2.0 on the hours stored in the entry, and is what
\* calculate_overtime_pay gives for the stored hours and the rate.
C14_ReturnedPayMatchesStoredHours ==
    \A w \in DOMAIN resp :
        SubmitOk(resp[w]) =>
            LET ts == resp[w].timesheet
                rate == EmployeeTable[ts.employeeId].hourlyRate
            IN  /\ ts \in timesheets
                /\ resp[w].overtimePay
                     = (3 * ts.ot1_5Hours * rate) + (4 * ts.ot2Hours * rate)
                /\ resp[w].overtimePay
                     = calculate_overtime_pay(ts.normalHours, ts.ot1_5Hours,
                                              ts.ot2Hours, rate)

\* A submission with a break and with hours in both overtime tiers was
\* answered with a positive overtimePay.
C14_Witness ==
    \E w \in DOMAIN resp :
        /\ SubmitOk(resp[w])
        /\ resp[w].timesheet.breakMinutes > 0
        /\ resp[w].timesheet.ot1_5Hours > 0
        /\ resp[w].timesheet.ot2Hours > 0
        /\ resp[w].overtimePay > 0

\* The request of the example: 09:00 to 19:00 of one day, 60 minutes of break.
NineToSeven(body) ==
    /\ body.clockIn % Hours(24) = Hours(9)
    /\ body.clockOut = body.clockIn + Hours(10)
    /\ body.breakMinutes = 60

\* C15: for 09:00-19:00 with a 60 minute break the classifier gives normal
\* 8h and evening 2h, and the stored entry has normalHours 7, eveningHours 2,
\* nightHours 0, totalHours 9, with overtimePay = 2 x rate x 1.5.
C15_NineToSevenExample ==
    \A w \in DOMAIN resp :
        (SubmitOk(resp[w]) /\ NineToSeven(resp[w].body)) =>
            LET ts == resp[w].timesheet
                rate == EmployeeTable[ts.employeeId].hourlyRate
                raw == calculateOvertime(resp[w].body.clockIn,
                                         resp[w].body.clockOut, rate)
            IN  /\ raw.normalHours = Hours(8)
                /\ raw.ot1_5Hours = Hours(2)
                /\ ts.normalHours = Hours(7)
                /\ ts.ot1_5Hours = Hours(2)
                /\ ts.ot2Hours = 0
                /\ ts.totalHours = Hours(9)
                /\ resp[w].overtimePay = 3 * Hours(2) * rate

\* The example was submitted and stored.
C15_Witness ==
    \E w \in DOMAIN resp :
        /\ SubmitOk(resp[w])
        /\ NineToSeven(resp[w].body)
        /\ resp[w].timesheet \in timesheets
        /\ resp[w].overtimePay > 0

\* C16: for clockIn 22:00 and clockOut 06:00 of the next day the three tiers
\* hold exactly 2 hours together, the time from 22:00 to midnight.
C16_TenToSixCountsTwoHours ==
    (/\ calc.called
     /\ calc.clockIn % Hours(24) = Hours(22)
     /\ calc.clockOut = calc.clockIn + Hours(8))
    => calc.raw.normalHours + calc.raw.ot1_5Hours + calc.raw.ot2Hours = Hours(2)

\* C17: every successful submitTimesheet leaves the entry of its key PENDING,
\* whether the entry is new, was PENDING or was REJECTED.
C17_SubmitLeavesPending ==
    [][\A w \in DOMAIN proc :
          (Completes(w, "upsert_write") /\ resp'[w].code = 200)
          => \E r \in timesheets' :
                /\ r.employeeId = proc[w].body.employeeId
                /\ r.date = proc[w].body.date
                /\ r = resp'[w].timesheet
                /\ r.status = "PENDING"]_vars

\* An entry was rejected and a later submission was written over it: the
\* entry is PENDING while one slot holds the answer of the rejection and the
\* other the answer of the submission.
C17_Witness ==
    \E w1 \in DOMAIN resp, w2 \in DOMAIN resp :
        /\ resp[w1].op = "reject" /\ resp[w1].code = 200
        /\ SubmitOk(resp[w2])
        /\ resp[w2].timesheet.id = resp[w1].id
        /\ \E r \in timesheets : r.id = resp[w1].id /\ r.status = "PENDING"

C19_ActualCostNeverDecreases ==
    [][\A p \in Projects : actualCost'[p] >= actualCost[p]]_vars

\* A cost was accrued by an approval, and the entry was afterwards
\* resubmitted and rejected.
C19_Witness ==
    /\ actualCost["p1"] > 0
    /\ \E r \in timesheets : r.status = "REJECTED"
    /\ \E w \in DOMAIN resp : resp[w].op = "reject" /\ resp[w].code = 200

\* C20: an approval either succeeds, with the entry APPROVED and the amount
\* of the entry added to its project in the same step, or is answered with an
\* error, with the entry and every actualCost left as they were.
C20_FailedAccrualLeavesNoApproval ==
    [][\A w \in DOMAIN proc :
          Completes(w, "approve")
          => LET old == CHOOSE r \in timesheets : r.id = proc[w].id
                 new == CHOOSE r \in timesheets' : r.id = proc[w].id
                 rate == EmployeeTable[old.employeeId].hourlyRate
                 amount == (2 * old.normalHours * rate)
                              + (3 * old.ot1_5Hours * rate) + (4 * old.ot2Hours * rate)
             IN  \/ /\ resp'[w].code = 200
                    /\ new.status = "APPROVED"
                    /\ \A p \in Projects :
                          actualCost'[p] =
                             IF /\ old.status # "APPROVED"
                                /\ old.projectAssignmentId \in Assignments
                                /\ p = ProjectOfAssignment(old.projectAssignmentId)
                             THEN actualCost[p] + amount
                             ELSE actualCost[p]
                 \/ /\ resp'[w].code = 500
                    /\ new = old
                    /\ new.status # "APPROVED"
                    /\ actualCost' = actualCost]_vars

\* An approval failed in the accrual: it was answered with an error, the
\* entry is still PENDING and nothing was added to its project.
C20_Witness ==
    \E w \in DOMAIN resp :
        /\ resp[w].op = "approve" /\ resp[w].code = 500
        /\ \E r \in timesheets :
              /\ r.id = resp[w].id
              /\ r.status = "PENDING"
              /\ r.projectAssignmentId = "a1"
        /\ actualCost["p1"] = 0

\* The fields a submission writes, as they stand in row r.
WrittenFields(r) ==
    [clockIn |-> r.clockIn, clockOut |-> r.clockOut, breakMinutes |-> r.breakMinutes,
     normalHours |-> r.normalHours, ot1_5Hours |-> r.ot1_5Hours,
     ot2Hours |-> r.ot2Hours, totalHours |-> r.totalHours,
     projectAssignmentId |-> r.projectAssignmentId, status |-> r.status]

\* C21: writes to one (employeeId, date) key are serialized: a submission
\* that is written leaves one entry for the key with all its fields from
\* that submission, and a submission whose write comes after an approval of
\* the entry is refused (409) and changes nothing.
C21_WritesOfOneKeySerialized ==
    [][\A w \in DOMAIN proc :
          Completes(w, "upsert_write")
          => LET before == RowsOfKey(timesheets, proc[w].body.employeeId,
                                     proc[w].body.date)
                 after == RowsOfKey(timesheets', proc[w].body.employeeId,
                                    proc[w].body.date)
             IN  IF \E r \in before : r.status = "APPROVED"
                 THEN resp'[w].code = 409 /\ timesheets' = timesheets
                 ELSE resp'[w].code = 200
                      => /\ Cardinality(after) = 1
                         /\ \A r \in after : WrittenFields(r) = proc[w].data]_vars

\* C22: the three windows partition the clock-in day: NIGHT = [00:00, 08:00),
\* NORMAL = [08:00, 17:00), EVENING = [17:00, 24:00), so an interval of the
\* day too short for the cap is counted whole, once.
C22_WindowsPartitionTheDay ==
    calc.called =>
        LET midnight == (calc.clockIn \div Hours(24)) * Hours(24)
        IN  /\ ot2Start(calc.clockIn) = midnight
            /\ ot2End(calc.clockIn) = midnight + Hours(8)
            /\ standardStart(calc.clockIn) = midnight + Hours(8)
            /\ standardEnd(calc.clockIn) = midnight + Hours(17)
            /\ ot1_5Start(calc.clockIn) = midnight + Hours(17)
            /\ ot1_5End(calc.clockIn) = midnight + Hours(24)
            /\ (/\ calc.clockIn < calc.clockOut
                /\ calc.clockOut <= midnight + Hours(24)
                /\ calc.clockOut - calc.clockIn <= Hours(8))
               => calc.raw.normalHours + calc.raw.ot1_5Hours + calc.raw.ot2Hours
                     = calc.clockOut - calc.clockIn

\* The company of the employee of a row.
CompanyOfRow(r) == EmployeeTable[r.employeeId].companyId

\* C23: for a caller bound to a company, the timesheet list holds and counts
\* only entries of employees of that company, whatever the query, and a
\* submission creates or changes only entries of employees of that company.
C23_TimesheetsIsolatedPerCompany ==
    [][\A w \in DOMAIN proc :
          /\ (/\ resp'[w].op = "list" /\ resp'[w].code = 200
               /\ resp'[w].caller.companyId # NoCompany)
              => /\ \A i \in 1 .. Len(resp'[w].timesheets) :
                       CompanyOfRow(resp'[w].timesheets[i]) = resp'[w].caller.companyId
                 /\ resp'[w].total
                       <= Cardinality({r \in timesheets :
                                         CompanyOfRow(r) = resp'[w].caller.companyId})
          /\ (/\ Completes(w, "upsert_write")
               /\ proc[w].caller.companyId # NoCompany)
              => \A r \in (timesheets' \ timesheets) \cup (timesheets \ timesheets') :
                    CompanyOfRow(r) = proc[w].caller.companyId]_vars

\* A caller of company c1 asked for the entries of an employee of company c2,
\* which has one, and was given none.
C23_Witness ==
    \E w \in DOMAIN resp :
        /\ resp[w].op = "list" /\ resp[w].code = 200
        /\ resp[w].caller.companyId = "c1"
        /\ resp[w].query.employeeId = "e2"
        /\ resp[w].total = 0
        /\ \E r \in timesheets : r.employeeId = "e2"
        /\ \E r \in timesheets : r.employeeId = "e1"

\* C24: for a caller bound to a company, the employee list holds only
\* employees of that company, whatever companyId the query passes.
C24_EmployeesIsolatedPerCompany ==
    \A w \in DOMAIN resp :
        (/\ resp[w].op = "employees" /\ resp[w].code = 200
         /\ resp[w].caller.companyId # NoCompany)
        => \A i \in 1 .. Len(resp[w].employees) :
              EmployeeTable[resp[w].employees[i]].companyId = resp[w].caller.companyId

\* C25: the work of one (employeeId, date) entry is accrued at most once: on
\* a ledger of one key, a step adds to a project's cost only when nothing
\* has been added before.
C25_OneAccrualPerKey ==
    [][actualCost' # actualCost => \A p \in Projects : actualCost[p] = 0]_vars

\* C26: only a transition into APPROVED changes project cost: a submission
\* and a rejection leave every actualCost as it was.
C26_OnlyApprovalChangesCost ==
    [][/\ actualCost' # actualCost
          => \E r \in timesheets, r2 \in timesheets' :
                r2.id = r.id /\ r.status # "APPROVED" /\ r2.status = "APPROVED"
       /\ \A w \in DOMAIN proc :
             (Completes(w, "upsert_write") \/ Completes(w, "reject"))
             => actualCost' = actualCost]_vars

\* A cost was accrued, and afterwards a submission was written over the
\* entry and the entry was rejected.
C26_Witness ==
    \E w1 \in DOMAIN resp, w2 \in DOMAIN resp :
        /\ actualCost["p1"] > 0
        /\ SubmitOk(resp[w1])
        /\ resp[w2].op = "reject" /\ resp[w2].code = 200
        /\ \E r \in timesheets : r.status = "REJECTED"

\* A submission the handler has to refuse: no caller or no timesheets.create
\* permission, no such employee, or an employee of another company.
MustBeRefused(caller, body) ==
    \/ caller = NoUser
    \/ ("timesheets.create" \notin caller.permissions /\ "*" \notin caller.permissions)
    \/ body.employeeId \notin DOMAIN EmployeeTable
    \/ /\ caller.companyId # NoCompany
       /\ EmployeeTable[body.employeeId].companyId # caller.companyId

\* C27: a submission that is refused (401, 404, 403) writes nothing to the
\* ledger, and no submission that has to be refused reaches the write.
C27_RefusedSubmitWritesNothing ==
    [][\A w \in DOMAIN proc :
          /\ (/\ resp'[w] # resp[w]
               /\ resp'[w].op = "submit"
               /\ resp'[w].code \in {401, 403, 404})
              => timesheets' = timesheets
          /\ proc'[w].pc = "upsert_write"
              => ~MustBeRefused(proc'[w].caller, proc'[w].body)]_vars

\* A submission was refused for the employee's company while the ledger
\* holds entries of both companies.
C27_Witness ==
    \E w \in DOMAIN resp :
        /\ resp[w].op = "submit" /\ resp[w].code = 403
        /\ \E r \in timesheets : r.employeeId = "e1"
        /\ \E r \in timesheets : r.employeeId = "e2"

\* C28: approving an entry without project assignment makes it APPROVED and
\* changes the actualCost of no project.
C28_ApprovalWithoutAssignment ==
    [][\A w \in DOMAIN proc :
          (/\ Completes(w, "approve")
           /\ \E r \in timesheets :
                 r.id = proc[w].id /\ r.projectAssignmentId \notin Assignments)
          => /\ resp'[w].code = 200
             /\ \E r \in timesheets' : r.id = proc[w].id /\ r.status = "APPROVED"
             /\ actualCost' = actualCost]_vars

\* An entry with hours and without assignment was approved, and no project
\* has a cost.
C28_Witness ==
    \E w \in DOMAIN resp :
        /\ ApprovedOk(resp[w])
        /\ resp[w].seen.status = "PENDING"
        /\ resp[w].timesheet.projectAssignmentId = NoAssignment
        /\ resp[w].timesheet.status = "APPROVED"
        /\ resp[w].timesheet.normalHours > 0
        /\ \A p \in Projects : actualCost[p] = 0

\* C29: the date of the key of every stored entry is the calendar date of
\* its clockIn, the day the tier windows were anchored to.
C29_KeyDateIsClockInDate ==
    \A r \in timesheets : r.date = r.clockIn \div Hours(24)

\* C30: a caller whose permissions hold "timesheets.*" or "*" has
\* timesheets.create and timesheets.read, and is given the timesheet list.
C30_NamespaceWildcardGrants ==
    \A w \in DOMAIN resp :
        (/\ resp[w].op = "list"
         /\ resp[w].caller # NoUser
         /\ ("timesheets.*" \in resp[w].caller.permissions
               \/ "*" \in resp[w].caller.permissions))
        => /\ resp[w].code = 200
           /\ hasPermission(resp[w].caller, "timesheets.create")
           /\ hasPermission(resp[w].caller, "timesheets.read")

====
